---- MODULE Spec2Model ----
(***************************************************************************)
(* Model of the blog server of src/main.rs: two in-memory stores, each     *)
(* behind its own std::sync::Mutex, and the five request handlers that     *)
(* the actix-web workers run concurrently against them.                    *)
(*                                                                         *)
(* A handler is a sequence of steps: the request is dispatched (Start...), *)
(* the handler locks its store and runs its body under the lock, and       *)
(* returns, which drops the guard and hands the response to the framework  *)
(* (Return).  Steps of different workers interleave freely.                *)
(***************************************************************************)
EXTENDS Integers, Sequences, FiniteSets, TLC

\* ------------------------------------------------------------------ bounds
NumWorkers == 2       \* worker threads running handlers concurrently
MaxPosts == 3         \* create_post requests accepted in one run
MaxComments == 2      \* create_comment requests accepted in one run
MaxPostsMixed == 2    \* create_post requests accepted in a run of all routes

Workers == 1..NumWorkers
None == 0             \* "no worker": a free lock
Poisoned == -1        \* a Mutex whose holder unwound: lock() answers Err

\* Path and payload values the clients send.  Key MaxPosts + 1 is never the
\* id of a post, so requests for a missing post are always among them.
PostIds == 1..(MaxPosts + 1)
CommentKeys == {1, MaxPosts + 1}
PostInputs == {[title |-> "T", body |-> "B"], [title |-> "A", body |-> ""]}
Texts == {"x", "y"}

\* One payload of each kind, for the runs in which the payloads do not matter.
OnePostInput == {[title |-> "T", body |-> "B"]}
OneText == {"x"}

Ops == {"get_posts", "create_post", "get_post", "get_comments", "create_comment"}

\* The store a handler locks: its web::Data parameter.
StoreOf(o) == IF o \in {"get_posts", "create_post", "get_post"}
              THEN "posts_db" ELSE "comments_db"

Stores == {"posts_db", "comments_db"}

VARIABLES
  posts_db,      \* HashMap<u32, Post>: a function from the keys to Post records
  comments_db,   \* HashMap<u32, Vec<Comment>>: keys to sequences of Comments
  lock,          \* per store: the worker holding the Mutex, or None
  pc,            \* per worker: position of its handler
  req,           \* per worker: the request being handled
  id,            \* per worker: the handler's local id (create_post, create_comment)
  resp,          \* per worker: the response built by the handler
  inserted,      \* history: the completed create_post, in order of completion
  appended       \* history: per post_id, comments of the completed create_comment

vars == <<posts_db, comments_db, lock, pc, req, id, resp, inserted, appended>>

\* ------------------------------------------------------------------ values
Post(i, t, b) == [id |-> i, title |-> t, body |-> b]
Comment(i, p, t) == [id |-> i, post_id |-> p, text |-> t]

NoReq == [op |-> "none", ok |-> TRUE, post_id |-> 0, title |-> "", body |-> "", text |-> ""]
Request(o, ok, p, t, b, x) ==
  [op |-> o, ok |-> ok, post_id |-> p, title |-> t, body |-> b, text |-> x]

\* A response: the status and the JSON payload.  kind says whether the body
\* is empty, one JSON object or a JSON array; items holds the records.
NoResp == [status |-> 0, kind |-> "none", items |-> <<>>]
Empty(s) == [status |-> s, kind |-> "empty", items |-> <<>>]
JsonObject(s, r) == [status |-> s, kind |-> "object", items |-> <<r>>]
JsonArray(s, rs) == [status |-> s, kind |-> "array", items |-> rs]

\* HashMap::insert
MapInsert(m, k, v) == [x \in (DOMAIN m) \cup {k} |-> IF x = k THEN v ELSE m[x]]

\* HashMap::len() as u32.  The stores of this model hold a handful of
\* entries, far from the 2^32 at which the cast or the + 1 would wrap.
MapLen(m) == Cardinality(DOMAIN m)

\* HashMap::values().cloned().collect(): the values in some iteration order
Orders(m) == {s \in [1..Cardinality(DOMAIN m) -> DOMAIN m] :
                \A i, j \in DOMAIN s : i # j => s[i] # s[j]}
Values(m) == {[i \in DOMAIN s |-> m[s[i]]] : s \in Orders(m)}

\* ------------------------------------------------------------------- Init
Init ==
  /\ posts_db = <<>>
  /\ comments_db = <<>>
  /\ lock = [s \in Stores |-> None]
  /\ pc = [w \in Workers |-> "idle"]
  /\ req = [w \in Workers |-> NoReq]
  /\ id = [w \in Workers |-> 0]
  /\ resp = [w \in Workers |-> NoResp]
  /\ inserted = <<>>
  /\ appended = [p \in CommentKeys |-> <<>>]

\* --------------------------------------------------------------- dispatch
Free(w) == pc[w] = "idle"
Running(o) == {w \in Workers : req[w].op = o /\ pc[w] \in {"lock", "insert", "return"}}

RECURSIVE Sum(_, _)
Sum(f, S) == IF S = {} THEN 0
             ELSE LET x == CHOOSE y \in S : TRUE IN f[x] + Sum(f, S \ {x})
Completed(log) == Sum([p \in DOMAIN log |-> Len(log[p])], DOMAIN log)

\* The framework hands a request to a worker.  The extractors have run: a
\* request whose JSON body fits the handler's struct reaches the handler...
Dispatch(w, r) ==
  /\ Free(w)
  /\ pc' = [pc EXCEPT ![w] = "lock"]
  /\ req' = [req EXCEPT ![w] = r]
  /\ UNCHANGED <<posts_db, comments_db, lock, id, resp, inserted, appended>>

\* Faulty variant: a missing field is filled with its default and the
\* handler is called.
RejectDefaulted(w, o) ==
  /\ Free(w)
  /\ pc' = [pc EXCEPT ![w] = "lock"]
  /\ req' = [req EXCEPT ![w] = Request(o, FALSE, 0, "", "", "")]
  /\ UNCHANGED <<posts_db, comments_db, lock, id, resp, inserted, appended>>

\* ... and one whose body does not is answered 400 by the extractor: the
\* handler is never called.
Reject(w, o) ==
  /\ Free(w)
  /\ pc' = [pc EXCEPT ![w] = "rejected"]
  /\ req' = [req EXCEPT ![w] = Request(o, FALSE, 0, "", "", "")]
  /\ resp' = [resp EXCEPT ![w] = Empty(400)]
  /\ UNCHANGED <<posts_db, comments_db, lock, id, inserted, appended>>

RejectPost(w) == Reject(w, "create_post")
RejectComment(w) == Reject(w, "create_comment")

StartGetPosts(w) ==
  Dispatch(w, Request("get_posts", TRUE, 0, "", "", ""))

StartCreatePost(w, d) ==
  /\ Len(inserted) + Cardinality(Running("create_post")) < MaxPosts
  /\ Dispatch(w, Request("create_post", TRUE, 0, d.title, d.body, ""))

StartGetPost(w, p) ==
  Dispatch(w, Request("get_post", TRUE, p, "", "", ""))

StartGetComments(w, p) ==
  Dispatch(w, Request("get_comments", TRUE, p, "", "", ""))

StartCreateComment(w, p, x) ==
  /\ Completed(appended) + Cardinality(Running("create_comment")) < MaxComments
  /\ Dispatch(w, Request("create_comment", TRUE, p, "", "", x))

\* ------------------------------------------------------------------ locking
\* Faulty variants of the locking, used to test the properties below:
\* a lock that does not wait for its holder,
AcquireNoWait(w) ==
  /\ pc[w] = "lock"
  /\ lock' = [lock EXCEPT ![StoreOf(req[w].op)] = w]

\* a reader/writer lock, whose readers do not exclude each other,
AcquireShared(w) ==
  /\ pc[w] = "lock"
  /\ \/ lock[StoreOf(req[w].op)] = None
     \/ /\ lock[StoreOf(req[w].op)] # None
        /\ req[w].op \in {"get_posts", "get_post", "get_comments"}
        /\ req[lock[StoreOf(req[w].op)]].op \in {"get_posts", "get_post", "get_comments"}
  /\ lock' = [lock EXCEPT ![StoreOf(req[w].op)] = w]

\* and a handler that locks both stores.
AcquireBoth(w) ==
  /\ pc[w] = "lock"
  /\ \A s \in Stores : lock[s] = None
  /\ lock' = [s \in Stores |-> w]

\* let db = db.lock().unwrap(): the first statement of every handler.  It
\* blocks while another worker holds the Mutex of the handler's store.
Acquire(w) ==
  /\ pc[w] = "lock"
  /\ lock[StoreOf(req[w].op)] = None
  /\ lock' = [lock EXCEPT ![StoreOf(req[w].op)] = w]

\* The worker is done with the request and takes the next one.
Recycle(w) ==
  /\ pc' = [pc EXCEPT ![w] = "idle"]
  /\ req' = [req EXCEPT ![w] = NoReq]
  /\ id' = [id EXCEPT ![w] = 0]
  /\ resp' = [resp EXCEPT ![w] = NoResp]

\* Faulty variant: the guard is leaked, the Mutex stays locked.
ReturnLeak(w) ==
  /\ pc[w] = "return"
  /\ Recycle(w)
  /\ UNCHANGED <<posts_db, comments_db, lock, inserted, appended>>

\* The handler returns: its guard is dropped, the response goes out.  The
\* history records a completed creation: the record the handler built from
\* its request and its id, and for a post whether another create_post was
\* running as this one completed.
Return(w) ==
  /\ pc[w] = "return"
  /\ lock' = [lock EXCEPT ![StoreOf(req[w].op)] = None]
  /\ Recycle(w)
  /\ inserted' = IF req[w].op = "create_post"
                 THEN Append(inserted, [post |-> Post(id[w], req[w].title, req[w].body),
                                        overlap |-> Running("create_post") # {w}])
                 ELSE inserted
  /\ appended' = IF req[w].op = "create_comment"
                 THEN [appended EXCEPT ![req[w].post_id] =
                         Append(@, Comment(id[w], req[w].post_id, req[w].text))]
                 ELSE appended
  /\ UNCHANGED <<posts_db, comments_db>>

\* A handler unwinds while it holds the guard, and the Mutex is poisoned.
\* The additions that compute the next id are the only statements under a
\* guard that can unwind (overflow checks on, the length at u32::MAX); that
\* length is beyond every bound here, so the fault is taken at will.
Panic(w) ==
  /\ req[w].op \in {"create_post", "create_comment"}
  /\ pc[w] = "lock"
  /\ lock[StoreOf(req[w].op)] = None
  /\ lock' = [lock EXCEPT ![StoreOf(req[w].op)] = Poisoned]
  /\ pc' = [pc EXCEPT ![w] = "panicked"]
  /\ UNCHANGED <<posts_db, comments_db, req, id, resp, inserted, appended>>

\* Faulty variant: db.lock().unwrap_or_else(|e| e.into_inner()), which
\* takes the guard out of the error and goes on.
UnwrapRecover(w) ==
  /\ pc[w] = "lock"
  /\ lock[StoreOf(req[w].op)] = Poisoned
  /\ lock' = [lock EXCEPT ![StoreOf(req[w].op)] = None]
  /\ UNCHANGED <<posts_db, comments_db, pc, req, id, resp, inserted, appended>>

\* db.lock().unwrap() on a poisoned Mutex: lock() answers Err, unwrap()
\* panics, and the handler unwinds before its first read of the store.
Unwrap(w) ==
  /\ pc[w] = "lock"
  /\ lock[StoreOf(req[w].op)] = Poisoned
  /\ pc' = [pc EXCEPT ![w] = "panicked"]
  /\ UNCHANGED <<posts_db, comments_db, lock, req, id, resp, inserted, appended>>

\* The request of a handler that unwound ends with no response.
Abort(w) ==
  /\ pc[w] = "panicked"
  /\ Recycle(w)
  /\ UNCHANGED <<posts_db, comments_db, lock, inserted, appended>>

\* The 400 of a rejected request goes out.
Finish(w) ==
  /\ pc[w] = "rejected"
  /\ Recycle(w)
  /\ UNCHANGED <<posts_db, comments_db, lock, inserted, appended>>

\* ----------------------------------------------------------------- bodies
\* Faulty variant: the first post of the iteration is left out.
GetPostsSkip(w) ==
  /\ req[w].op = "get_posts"
  /\ Acquire(w)
  /\ \E posts \in Values(posts_db) :
       resp' = [resp EXCEPT ![w] = JsonArray(200, IF posts = <<>> THEN posts ELSE Tail(posts))]
  /\ pc' = [pc EXCEPT ![w] = "return"]
  /\ UNCHANGED <<posts_db, comments_db, req, id, inserted, appended>>

GetPosts(w) ==
  /\ req[w].op = "get_posts"
  /\ Acquire(w)
  /\ \E posts \in Values(posts_db) :
       resp' = [resp EXCEPT ![w] = JsonArray(200, posts)]
  /\ pc' = [pc EXCEPT ![w] = "return"]
  /\ UNCHANGED <<posts_db, comments_db, req, id, inserted, appended>>

\* Faulty variant: the id is the count, without the + 1.
NextPostIdLen(db) == MapLen(db)

\* let id = (db.len() as u32) + 1;
NextPostId(db) == MapLen(db) + 1

CreatePostId(w) ==
  /\ req[w].op = "create_post"
  /\ Acquire(w)
  /\ id' = [id EXCEPT ![w] = NextPostId(posts_db)]
  /\ pc' = [pc EXCEPT ![w] = "insert"]
  /\ UNCHANGED <<posts_db, comments_db, req, resp, inserted, appended>>

\* Faulty variant: title and body change places in the stored record.
CreatePostInsertSwapped(w) ==
  /\ pc[w] = "insert" /\ req[w].op = "create_post"
  /\ posts_db' = MapInsert(posts_db, id[w], Post(id[w], req[w].body, req[w].title))
  /\ resp' = [resp EXCEPT ![w] = Empty(201)]
  /\ pc' = [pc EXCEPT ![w] = "return"]
  /\ UNCHANGED <<comments_db, lock, req, id, inserted, appended>>

CreatePostInsert(w) ==
  /\ pc[w] = "insert" /\ req[w].op = "create_post"
  /\ posts_db' = MapInsert(posts_db, id[w], Post(id[w], req[w].title, req[w].body))
  /\ resp' = [resp EXCEPT ![w] = Empty(201)]
  /\ pc' = [pc EXCEPT ![w] = "return"]
  /\ UNCHANGED <<comments_db, lock, req, id, inserted, appended>>

\* Faulty variant: a missing post is answered 200 with an empty body.
GetPostAlwaysOk(w) ==
  /\ req[w].op = "get_post"
  /\ Acquire(w)
  /\ resp' = [resp EXCEPT ![w] =
                IF req[w].post_id \in DOMAIN posts_db
                THEN JsonObject(200, posts_db[req[w].post_id])
                ELSE Empty(200)]
  /\ pc' = [pc EXCEPT ![w] = "return"]
  /\ UNCHANGED <<posts_db, comments_db, req, id, inserted, appended>>

GetPost(w) ==
  /\ req[w].op = "get_post"
  /\ Acquire(w)
  /\ resp' = [resp EXCEPT ![w] =
                IF req[w].post_id \in DOMAIN posts_db
                THEN JsonObject(200, posts_db[req[w].post_id])
                ELSE Empty(404)]
  /\ pc' = [pc EXCEPT ![w] = "return"]
  /\ UNCHANGED <<posts_db, comments_db, req, id, inserted, appended>>

\* Faulty variant: a post_id without comments is answered 404.
GetCommentsNotFound(w) ==
  /\ req[w].op = "get_comments"
  /\ Acquire(w)
  /\ resp' = [resp EXCEPT ![w] =
                IF req[w].post_id \in DOMAIN comments_db
                THEN JsonArray(200, comments_db[req[w].post_id])
                ELSE Empty(404)]
  /\ pc' = [pc EXCEPT ![w] = "return"]
  /\ UNCHANGED <<posts_db, comments_db, req, id, inserted, appended>>

\* Faulty variant: the lookup goes through entry(post_id).or_default(), which
\* leaves an empty list behind for a post_id that had none.
GetCommentsEntry(w) ==
  /\ req[w].op = "get_comments"
  /\ Acquire(w)
  /\ resp' = [resp EXCEPT ![w] =
                IF req[w].post_id \in DOMAIN comments_db
                THEN JsonArray(200, comments_db[req[w].post_id])
                ELSE JsonArray(200, <<>>)]
  /\ comments_db' = IF req[w].post_id \in DOMAIN comments_db
                    THEN comments_db
                    ELSE MapInsert(comments_db, req[w].post_id, <<>>)
  /\ pc' = [pc EXCEPT ![w] = "return"]
  /\ UNCHANGED <<posts_db, req, id, inserted, appended>>

GetComments(w) ==
  /\ req[w].op = "get_comments"
  /\ Acquire(w)
  /\ resp' = [resp EXCEPT ![w] =
                IF req[w].post_id \in DOMAIN comments_db
                THEN JsonArray(200, comments_db[req[w].post_id])
                ELSE JsonArray(200, <<>>)]
  /\ pc' = [pc EXCEPT ![w] = "return"]
  /\ UNCHANGED <<posts_db, comments_db, req, id, inserted, appended>>

\* Faulty variant: one counter for the comments of all posts.
NextCommentIdGlobal(db, p) == Sum([q \in DOMAIN db |-> Len(db[q])], DOMAIN db) + 1

\* Faulty variant: the id is the count, without the + 1.
NextCommentIdLen(db, p) == IF p \in DOMAIN db THEN Len(db[p]) ELSE 1

\* comments_db.get(&post_id).map_or(1, |comments| comments.len() as u32 + 1)
NextCommentId(db, p) == IF p \in DOMAIN db THEN Len(db[p]) + 1 ELSE 1

\* Faulty variant: a comment for a post_id that is no post is answered 404.
CreateCommentIdChecked(w) ==
  /\ req[w].op = "create_comment"
  /\ Acquire(w)
  /\ IF req[w].post_id \in DOMAIN posts_db
     THEN /\ id' = [id EXCEPT ![w] = NextCommentId(comments_db, req[w].post_id)]
          /\ pc' = [pc EXCEPT ![w] = "insert"]
          /\ resp' = resp
     ELSE /\ id' = id
          /\ pc' = [pc EXCEPT ![w] = "return"]
          /\ resp' = [resp EXCEPT ![w] = Empty(404)]
  /\ UNCHANGED <<posts_db, comments_db, req, inserted, appended>>

CreateCommentId(w) ==
  /\ req[w].op = "create_comment"
  /\ Acquire(w)
  /\ id' = [id EXCEPT ![w] = NextCommentId(comments_db, req[w].post_id)]
  /\ pc' = [pc EXCEPT ![w] = "insert"]
  /\ UNCHANGED <<posts_db, comments_db, req, resp, inserted, appended>>

\* Faulty variant: the comment is put in front.
PushFront(db, p, c) == MapInsert(db, p, <<c>> \o (IF p \in DOMAIN db THEN db[p] ELSE <<>>))

\* Faulty variant: the comment is pushed to the lists of all posts.
PushEvery(db, p, c) ==
  [q \in (DOMAIN db) \cup {p} |-> Append(IF q \in DOMAIN db THEN db[q] ELSE <<>>, c)]

\* comments_db.entry(post_id).or_insert_with(Vec::new).push(new_comment)
Push(db, p, c) == MapInsert(db, p, Append(IF p \in DOMAIN db THEN db[p] ELSE <<>>, c))

CreateCommentPush(w) ==
  /\ pc[w] = "insert" /\ req[w].op = "create_comment"
  /\ comments_db' = Push(comments_db, req[w].post_id,
                         Comment(id[w], req[w].post_id, req[w].text))
  /\ resp' = [resp EXCEPT ![w] = Empty(201)]
  /\ pc' = [pc EXCEPT ![w] = "return"]
  /\ UNCHANGED <<posts_db, lock, req, id, inserted, appended>>

\* ------------------------------------------------------------------- Next
\* The steps of a handler once its request is dispatched.
StepPosts(w) ==
  \/ GetPosts(w)
  \/ CreatePostId(w)
  \/ CreatePostInsert(w)
  \/ GetPost(w)

StepComments(w) ==
  \/ GetComments(w)
  \/ CreateCommentId(w)
  \/ CreateCommentPush(w)

\* The requests of the Post Store's routes, with every payload ...
NextPosts ==
  \E w \in Workers :
    \/ StartGetPosts(w)
    \/ \E d \in PostInputs : StartCreatePost(w, d)
    \/ \E p \in PostIds : StartGetPost(w, p)
    \/ RejectPost(w)
    \/ StepPosts(w)
    \/ Return(w)
    \/ Finish(w)

\* ... those of the Comment Store's routes, with every payload ...
NextComments ==
  \E w \in Workers :
    \/ \E p \in CommentKeys : StartGetComments(w, p)
    \/ \E p \in CommentKeys, x \in Texts : StartCreateComment(w, p, x)
    \/ RejectComment(w)
    \/ StepComments(w)
    \/ Return(w)
    \/ Finish(w)

\* ... and the requests of all routes, the creations with one payload each.
Next ==
  \E w \in Workers :
    \/ StartGetPosts(w)
    \/ \E d \in OnePostInput :
         /\ Len(inserted) + Cardinality(Running("create_post")) < MaxPostsMixed
         /\ StartCreatePost(w, d)
    \/ \E p \in PostIds : StartGetPost(w, p)
    \/ \E p \in CommentKeys : StartGetComments(w, p)
    \/ \E p \in CommentKeys, x \in OneText : StartCreateComment(w, p, x)
    \/ RejectPost(w)
    \/ RejectComment(w)
    \/ StepPosts(w)
    \/ StepComments(w)
    \/ Return(w)
    \/ Finish(w)

\* The server with all its routes.
Spec == Init /\ [][Next]_vars

\* The server under a load of requests for one store only.
SpecPosts == Init /\ [][NextPosts]_vars
SpecComments == Init /\ [][NextComments]_vars

\* ------------------------------------------------------------- properties
AtReturn(w, o) == req[w].op = o /\ pc[w] = "return"
InCS(w) == pc[w] \in {"insert", "return"}
Blocked(w) == pc[w] = "lock" /\ lock[StoreOf(req[w].op)] # None

\* Any step of a worker that has a request.
Step(w) == StepPosts(w) \/ StepComments(w) \/ Return(w) \/ Finish(w)

\* C1: starting from the empty Post Store, the k-th create_post to complete
\* was assigned id k, and the id a create_post is about to store is the
\* number of posts stored plus one.
C1_IdsInCallOrder ==
  /\ \A k \in 1..Len(inserted) : inserted[k].post.id = k
  /\ \A w \in Workers :
       (req[w].op = "create_post" /\ pc[w] = "insert")
         => id[w] = Cardinality(DOMAIN posts_db) + 1

C1_Witness == Len(inserted) >= 2

\* C2: when no create_post is running, the N completed ones, however they
\* interleaved, left exactly N posts, under the keys 1..N, each the record of
\* one create_post, no two under the same id.
C2_ConcurrentInserts ==
  Running("create_post") = {} =>
    LET N == Len(inserted) IN
      /\ DOMAIN posts_db = 1..N
      /\ Cardinality(DOMAIN posts_db) = N
      /\ \A k \in 1..N :
           /\ inserted[k].post.id \in DOMAIN posts_db
           /\ posts_db[inserted[k].post.id] = inserted[k].post
      /\ \A j, k \in 1..N : j # k => inserted[j].post.id # inserted[k].post.id

\* Two create_post overlapped: one completed while the other was running.
C2_Witness ==
  /\ Running("create_post") = {}
  /\ Len(inserted) >= 2
  /\ \E k \in 1..Len(inserted) : inserted[k].overlap

\* C3: a get_comments that reads right after the n-th create_comment of its
\* post_id completed answers n comments with the ids 1..n in order, the last
\* of them the comment just appended.
C3_AppendThenList ==
  \A w \in Workers :
    AtReturn(w, "get_comments") =>
      LET log == appended[req[w].post_id]
          n == Len(log)
      IN n >= 1 =>
           /\ resp[w].status = 200 /\ resp[w].kind = "array"
           /\ Len(resp[w].items) = n
           /\ \A i \in 1..n : resp[w].items[i].id = i
           /\ resp[w].items[n] = log[n]
           /\ log[n].post_id = req[w].post_id

C3_Witness ==
  \E w \in Workers :
    AtReturn(w, "get_comments") /\ Len(appended[req[w].post_id]) = 2

\* C4: a get_post for the id of a completed create_post answers 200 with the
\* record {id, title, body} of that create_post.
C4_RoundTrip ==
  \A w \in Workers :
    AtReturn(w, "get_post") =>
      \A k \in 1..Len(inserted) :
        inserted[k].post.id = req[w].post_id
          => resp[w] = JsonObject(200, inserted[k].post)

C4_Witness ==
  \E w \in Workers :
    /\ AtReturn(w, "get_post")
    /\ \E k \in 1..Len(inserted) :
         inserted[k].post.id = req[w].post_id /\ inserted[k].post.title # inserted[k].post.body

\* The answer of a get_post that holds the lock, by the key's presence.
C5_Answer ==
  \A w \in Workers :
    AtReturn(w, "get_post") =>
      /\ resp[w].status = 200 <=> req[w].post_id \in DOMAIN posts_db
      /\ req[w].post_id \notin DOMAIN posts_db => resp[w] = Empty(404)

\* The steps of a get_post leave the Post Store as it was.
C5_Frame ==
  \A w \in Workers :
    (req[w].op = "get_post" /\ pc'[w] # pc[w]) => posts_db' = posts_db

\* C5: get_post answers 200 exactly when the id is a key of the Post Store
\* as it holds the lock, 404 with an empty body otherwise, and its steps
\* leave the Post Store as it was.
C5_NotFound == []C5_Answer /\ [][C5_Frame]_vars

C5_Witness ==
  \E w \in Workers :
    /\ AtReturn(w, "get_post")
    /\ req[w].post_id \notin DOMAIN posts_db
    /\ posts_db # <<>>

\* C6: get_comments for a post_id without comments answers 200 with an empty
\* array, whether or not a post has that id.
C6_NoComments ==
  \A w \in Workers :
    AtReturn(w, "get_comments") =>
      /\ resp[w].status = 200
      /\ (\/ req[w].post_id \notin DOMAIN comments_db
          \/ comments_db[req[w].post_id] = <<>>) => resp[w] = JsonArray(200, <<>>)

\* No comments and no post under the id, in a server that has both.
C6_Witness ==
  \E w \in Workers :
    /\ AtReturn(w, "get_comments")
    /\ req[w].post_id \notin DOMAIN comments_db
    /\ req[w].post_id \notin DOMAIN posts_db
    /\ posts_db # <<>> /\ comments_db # <<>>

\* C7: a stored post stays as it is: no step removes a key of the Post Store
\* or changes the record under it.
C7_PostsImmutable ==
  [][\A i \in DOMAIN posts_db :
       i \in DOMAIN posts_db' /\ posts_db'[i] = posts_db[i]]_vars

C7_Witness ==
  /\ Cardinality(DOMAIN posts_db) >= 2
  /\ \E w \in Workers : AtReturn(w, "create_post")

\* C8: no handler holds both locks, a handler waiting for a lock holds none,
\* and whoever holds a lock is a running handler of that store; so a handler
\* that cannot step waits for one that can.
C8_NoDeadlock ==
  /\ \A w \in Workers : ~(lock["posts_db"] = w /\ lock["comments_db"] = w)
  /\ \A w \in Workers : pc[w] \in {"idle", "lock", "rejected"} => \A s \in Stores : lock[s] # w
  /\ \A s \in Stores : lock[s] # None => InCS(lock[s]) /\ StoreOf(req[lock[s]].op) = s
  /\ \A w \in Workers :
       pc[w] # "idle" =>
         \/ ENABLED Step(w)
         \/ \E v \in Workers : lock[StoreOf(req[w].op)] = v /\ ENABLED Step(v)

\* Both locks are held at once, by two handlers.
C8_Witness ==
  \E w, v \in Workers :
    w # v /\ lock["posts_db"] = w /\ lock["comments_db"] = v

\* C9: at most one handler at a time is inside the critical section of a
\* store, readers included.
C9_MutualExclusion ==
  \A w, v \in Workers :
    (InCS(w) /\ InCS(v) /\ StoreOf(req[w].op) = StoreOf(req[v].op)) => w = v

\* A reader waits while another reader of the same store holds the lock.
C9_Witness ==
  \E w, v \in Workers :
    /\ w # v
    /\ req[w].op \in {"get_posts", "get_post", "get_comments"}
    /\ req[v].op \in {"get_posts", "get_post", "get_comments"}
    /\ StoreOf(req[w].op) = StoreOf(req[v].op)
    /\ InCS(w) /\ Blocked(v)

\* C10: create_comment answers 201 for any post_id, a post or not, having
\* appended the comment with id = the count of that post_id's comments + 1,
\* and a get_comments of that post_id returns the completed ones.
C10_NoPostCheck ==
  /\ \A w \in Workers :
       AtReturn(w, "create_comment") =>
         LET p == req[w].post_id IN
           /\ resp[w] = Empty(201)
           /\ p \in DOMAIN comments_db
           /\ id[w] = Len(appended[p]) + 1
           /\ Len(comments_db[p]) = id[w]
           /\ comments_db[p][id[w]] = Comment(id[w], p, req[w].text)
  /\ \A w \in Workers :
       AtReturn(w, "get_comments") =>
         LET log == appended[req[w].post_id] IN
           /\ Len(resp[w].items) >= Len(log)
           /\ \A k \in 1..Len(log) : resp[w].items[k] = log[k]

\* A get_comments returns a comment of a post_id that is no post.
C10_Witness ==
  \E w \in Workers :
    /\ AtReturn(w, "get_comments")
    /\ req[w].post_id \notin DOMAIN posts_db
    /\ posts_db # <<>>
    /\ Len(appended[req[w].post_id]) >= 1
    /\ Len(resp[w].items) >= 1

\* C11: get_posts answers a snapshot of the Post Store: every stored post
\* once, the ids 1..k, with k no less than the create_post completed and no
\* more than those started; with three posts and nothing else running the
\* ids are {1, 2, 3}.
C11_Snapshot ==
  \A w \in Workers :
    AtReturn(w, "get_posts") =>
      LET items == resp[w].items
          k == Len(items)
      IN /\ resp[w].status = 200 /\ resp[w].kind = "array"
         /\ \A i, j \in 1..k : i # j => items[i] # items[j]
         /\ {items[i] : i \in 1..k} = {posts_db[i] : i \in DOMAIN posts_db}
         /\ {items[i].id : i \in 1..k} = 1..k
         /\ Len(inserted) <= k
         /\ k <= Len(inserted) + Cardinality(Running("create_post"))
         /\ (Len(inserted) = 3 /\ Running("create_post") = {})
              => {items[i].id : i \in 1..k} = {1, 2, 3}

\* Three posts, listed in another order than that of their ids, while
\* nothing else runs.
C11_Witness ==
  \E w \in Workers :
    /\ AtReturn(w, "get_posts")
    /\ \A v \in Workers : v # w => pc[v] = "idle"
    /\ Len(inserted) = 3
    /\ Len(resp[w].items) = 3
    /\ resp[w].items[1].id # 1

IsPrefix(a, b) == Len(a) <= Len(b) /\ \A i \in 1..Len(a) : a[i] = b[i]

\* The comments stored under p, none if p is no key.
Stored(p) == IF p \in DOMAIN comments_db THEN comments_db[p] ELSE <<>>

\* What get_comments answers is the stored sequence, and that is the
\* completed comments in their order, then the one of the create_comment
\* that holds the lock, if it has pushed.
C12_Order ==
  /\ \A w \in Workers :
       AtReturn(w, "get_comments") => resp[w].items = Stored(req[w].post_id)
  /\ \A p \in CommentKeys :
       /\ IsPrefix(appended[p], Stored(p))
       /\ Stored(p) # appended[p] =>
            \E w \in Workers :
              /\ AtReturn(w, "create_comment") /\ req[w].post_id = p
              /\ Stored(p) = Append(appended[p], Comment(id[w], p, req[w].text))

\* No step removes a key of the Comment Store, removes a comment or changes
\* one: a step leaves each sequence as it is or extends it at the end.
C12_Extends ==
  \A p \in DOMAIN comments_db :
    /\ p \in DOMAIN comments_db'
    /\ IsPrefix(comments_db[p], comments_db'[p])

\* C12: the comments of a post_id are append-only and in insertion order:
\* what a get_comments answers is a prefix of what any later one answers,
\* the comments are in the order in which their create_comment held the
\* lock, and a stored comment never changes.
C12_AppendOnly == []C12_Order /\ [][C12_Extends]_vars

\* A get_comments answers two comments of different texts.
C12_Witness ==
  \E w \in Workers :
    /\ AtReturn(w, "get_comments")
    /\ Len(resp[w].items) = 2
    /\ resp[w].items[1].text # resp[w].items[2].text

\* The id a create_comment is about to push is the count of its post_id's
\* comments plus one, and no two comments of a post_id have the same id.
C13_PerPost ==
  /\ \A w \in Workers :
       (req[w].op = "create_comment" /\ pc[w] = "insert")
         => id[w] = Len(Stored(req[w].post_id)) + 1
  /\ \A p \in CommentKeys :
       \A i, j \in 1..Len(Stored(p)) : i # j => Stored(p)[i].id # Stored(p)[j].id

\* The steps of a create_comment leave the comments of every other post_id
\* as they were.
C13_Frame ==
  \A w \in Workers :
    (req[w].op = "create_comment" /\ pc'[w] # pc[w]) =>
      \A q \in CommentKeys \ {req[w].post_id} :
        /\ q \in DOMAIN comments_db <=> q \in DOMAIN comments_db'
        /\ q \in DOMAIN comments_db => comments_db'[q] = comments_db[q]

\* C13: comment ids are assigned per post_id: a create_comment leaves the
\* other posts' comments unchanged, its id is the count of its own post_id's
\* comments plus one, and ids are unique within a post_id.
C13_IdsPerPost == []C13_PerPost /\ [][C13_Frame]_vars

\* Two post_ids each have a first comment, both with id 1.
C13_Witness ==
  \E p, q \in CommentKeys :
    /\ p # q
    /\ Len(Stored(p)) >= 1 /\ Len(Stored(q)) >= 1
    /\ Stored(p)[1].id = 1 /\ Stored(q)[1].id = 1

\* Scheduling: the worker threads all run, so a handler step that stays
\* possible is taken; and a handler that finds its Mutex free again and
\* again gets it in the end.  (std's Mutex hands the lock to no particular
\* waiter: under weak fairness alone the other workers could take it every
\* time.)
Fairness == \A w \in Workers : SF_vars(Step(w))

\* The requests of all routes that reach their handler, with one payload and
\* one path each: what a handler waits for does not depend on them.
NextHandled ==
  \E w \in Workers :
    \/ StartGetPosts(w)
    \/ \E d \in OnePostInput :
         /\ Len(inserted) + Cardinality(Running("create_post")) < MaxPostsMixed
         /\ StartCreatePost(w, d)
    \/ StartGetPost(w, 1)
    \/ StartGetComments(w, 1)
    \/ \E x \in OneText : StartCreateComment(w, 1, x)
    \/ StepPosts(w)
    \/ StepComments(w)
    \/ Return(w)

FairSpec == Init /\ [][NextHandled]_vars /\ Fairness

C15_Rejected ==
  \A w \in Workers :
    ~req[w].ok =>
      /\ req[w].op \in {"create_post", "create_comment"}
      /\ pc[w] = "rejected"
      /\ resp[w].status >= 400 /\ resp[w].status <= 499
      /\ \A s \in Stores : lock[s] # w

\* The steps of such a request leave stores, locks and histories as they
\* were, so the next ids are the same as before, and it goes nowhere but out.
C15_Frame ==
  \A w \in Workers :
    ((pc[w] = "rejected" \/ pc'[w] = "rejected") /\ pc'[w] # pc[w]) =>
      /\ UNCHANGED <<posts_db, comments_db, lock, inserted, appended>>
      /\ NextPostId(posts_db') = NextPostId(posts_db)
      /\ \A p \in CommentKeys : NextCommentId(comments_db', p) = NextCommentId(comments_db, p)
      /\ pc[w] = "rejected" => pc'[w] = "idle"

\* C15: a POST whose body is malformed or lacks a field ends with a client
\* error before the store is reached: no lock is taken, both stores stay as
\* they were, no id is used up.
C15_Malformed == []C15_Rejected /\ [][C15_Frame]_vars

\* A rejected request, in a server that has posts and comments.
C15_Witness ==
  \E w \in Workers :
    /\ pc[w] = "rejected"
    /\ posts_db # <<>> /\ comments_db # <<>>

\* The server with handlers that can unwind under the guard.
NextPoison ==
  \/ NextHandled
  \/ \E w \in Workers : Panic(w) \/ Unwrap(w) \/ Abort(w)

SpecPoison == Init /\ [][NextPoison]_vars

\* A handler that unwound has produced no response and holds no guard, and
\* the Mutex of its store is poisoned; a handler whose store is not
\* poisoned and not held can go on.
C16_Unwound ==
  \A w \in Workers :
    /\ pc[w] = "panicked" =>
         /\ resp[w] = NoResp
         /\ lock[StoreOf(req[w].op)] = Poisoned
         /\ \A s \in Stores : lock[s] # w
    /\ (pc[w] = "lock" /\ lock[StoreOf(req[w].op)] = None) =>
         ENABLED (StepPosts(w) \/ StepComments(w))

\* A poisoned Mutex stays poisoned and its store stays as it is; the only
\* step of a handler that waits for it is to unwind; and a handler of the
\* other store answers and gives its guard back as ever.
C16_Steps ==
  /\ \A s \in Stores : lock[s] = Poisoned => lock'[s] = Poisoned
  /\ lock["posts_db"] = Poisoned => posts_db' = posts_db /\ inserted' = inserted
  /\ lock["comments_db"] = Poisoned => comments_db' = comments_db /\ appended' = appended
  /\ \A w \in Workers :
       /\ (pc[w] = "lock" /\ lock[StoreOf(req[w].op)] = Poisoned /\ pc'[w] # pc[w]) =>
            pc'[w] = "panicked" /\ resp'[w] = NoResp
       /\ (pc[w] = "return" /\ pc'[w] # pc[w]) =>
            /\ resp[w].status \in {200, 201, 404}
            /\ lock[StoreOf(req[w].op)] = w
            /\ lock'[StoreOf(req[w].op)] = None

\* C16: a poisoned lock is fatal for every later request on its store, which
\* ends with no response and no change of the store, and for that store
\* only: the handlers of the other store go on as before.
C16_Poisoning == []C16_Unwound /\ [][C16_Steps]_vars

\* One store is poisoned and a handler has unwound on it, while a handler of
\* the other store holds its guard with its answer ready.
C16_Witness ==
  \E w, v \in Workers :
    /\ pc[w] = "panicked" /\ req[w].op \in {"get_posts", "get_post"}
    /\ lock["posts_db"] = Poisoned
    /\ AtReturn(v, "get_comments") /\ resp[v].status = 200
    /\ lock["comments_db"] = v

\* C17: the keys of the post store are 1..n for its n posts, and the post
\* under key k has id k.
C17_PostShape ==
  /\ DOMAIN posts_db = 1..MapLen(posts_db)
  /\ \A k \in DOMAIN posts_db : posts_db[k].id = k

\* A store with three posts.
C17_Witness == MapLen(posts_db) = 3 /\ Len(inserted) = 3

\* C18: every key of the comment store has a list that is not empty, whose
\* comments carry the key as post_id and their position as id.
C18_CommentShape ==
  \A p \in DOMAIN comments_db :
    /\ comments_db[p] # <<>>
    /\ \A i \in 1..Len(comments_db[p]) :
         /\ comments_db[p][i].post_id = p
         /\ comments_db[p][i].id = i

\* A post_id with two comments, after a listing of a post_id with none.
C18_Witness ==
  /\ \E p \in DOMAIN comments_db : Len(comments_db[p]) = 2 /\ Len(appended[p]) = 2
  /\ \E w \in Workers :
       /\ AtReturn(w, "get_comments")
       /\ req[w].post_id \notin DOMAIN comments_db

\* Every creation that has passed its insert accounts for one record.
C19_Counted ==
  /\ MapLen(posts_db) =
       Len(inserted) + Cardinality({w \in Workers : AtReturn(w, "create_post")})
  /\ \A p \in CommentKeys :
       Len(Stored(p)) =
         Len(appended[p]) + Cardinality({w \in Workers : /\ AtReturn(w, "create_comment")
                                                         /\ req[w].post_id = p})

\* What the step of a handler may change, by the handler it belongs to.
C19_Frame ==
  \A w \in Workers :
    pc'[w] # pc[w] =>
      LET op == IF pc[w] = "idle" THEN req'[w].op ELSE req[w].op
          after(q) == IF q \in DOMAIN comments_db' THEN comments_db'[q] ELSE <<>>
      IN /\ op \in {"get_posts", "get_post", "get_comments"} =>
              posts_db' = posts_db /\ comments_db' = comments_db
         /\ op = "create_post" =>
              /\ comments_db' = comments_db
              /\ \A k \in DOMAIN posts_db :
                   k \in DOMAIN posts_db' /\ posts_db'[k] = posts_db[k]
              /\ IF pc[w] = "insert"
                 THEN Cardinality(DOMAIN posts_db' \ DOMAIN posts_db) = 1
                 ELSE posts_db' = posts_db
         /\ op = "create_comment" =>
              /\ posts_db' = posts_db
              /\ IF pc[w] = "insert"
                 THEN /\ DOMAIN comments_db' = DOMAIN comments_db \cup {req[w].post_id}
                      /\ IsPrefix(Stored(req[w].post_id), after(req[w].post_id))
                      /\ Len(after(req[w].post_id)) = Len(Stored(req[w].post_id)) + 1
                      /\ \A q \in DOMAIN comments_db \ {req[w].post_id} :
                           comments_db'[q] = comments_db[q]
                 ELSE comments_db' = comments_db

\* C19: the three reading handlers leave both stores as they are;
\* create_post adds one post and leaves the comment store as it is;
\* create_comment adds one comment to the list of one post_id and leaves the
\* post store as it is.
C19_Frames == []C19_Counted /\ [][C19_Frame]_vars

\* A comment has just been added to a post_id that had one, in a server
\* that has a post.
C19_Witness ==
  \E w \in Workers :
    /\ AtReturn(w, "create_comment")
    /\ Len(Stored(req[w].post_id)) = 2
    /\ posts_db # <<>>

====
